---- MODULE Spec2Model ----
(***************************************************************************)
(* The socket adaptation layer of src/src/lib.rs: thin wrappers that       *)
(* forward POSIX-shaped socket calls to the LwIP primitives (lwip_x), the  *)
(* errno table, and the interface-readiness probe.                         *)
(*                                                                         *)
(* A wrapper call is two steps: the wrapper invokes its primitive (the     *)
(* caller is then inside the stack), and the primitive returns, at which   *)
(* point the wrapper converts the result and returns to its caller.  The   *)
(* stack itself is an external collaborator: its results are drawn from    *)
(* small sets, except for a mock option store and a mock socket table.     *)
(***************************************************************************)
EXTENDS Integers, Sequences, FiniteSets, TLC

VARIABLES
    pc,           \* pc[t]: "idle" | "in_stack" | "returned"
    call,         \* call[t]: the wrapper being run, its arguments, its return convention
    fwd,          \* fwd[t]: the primitive invocation the caller is (or was last) inside
    under,        \* under[t]: the primitives invoked so far by the current call, in order
    raw,          \* raw[t]: the result of the last primitive that returned
    ret,          \* ret[t]: the wrapper's return value
    out,          \* out[t]: the value the stack wrote through an out-pointer (optval)
    err,          \* err[t]: errno as left by the stack for this caller
    opts,         \* the mock stack's option store, per (handle, level, option-name)
    gnetif_addr,  \* gnetif.ip_addr.addr, owned by the stack
    lastSet       \* history: the value last set successfully through setsockopt, per key

vars == <<pc, call, fwd, under, raw, ret, out, err, opts, gnetif_addr, lastSet>>

----------------------------------------------------------------------------
(* Bounds of the model. *)

MaxOptVal == 2
MaxLen == 2
MaxAddr == 2

Callers == {1, 2}
OptVals == 1..MaxOptVal
Lens == (-1)..MaxLen
Addrs == 0..MaxAddr
Results == {-5, -1, 0, 3, 7}
FailCodes == {-5, -1, 7}

----------------------------------------------------------------------------
(* The errno table (the constants the claims name, and those the mock      *)
(* stack reports).                                                         *)

EBADF == 9
EAGAIN == 11
EDEADLK == 35
ELOOP == 40
EWOULDBLOCK_distinct == ELOOP + 1
EWOULDBLOCK == EAGAIN
EDEADLOCK == EDEADLK
ENOPROTOOPT == 92
ETIMEDOUT == 110
ECONNREFUSED == 111
IPV6_MULTICAST_LOOP == 19

----------------------------------------------------------------------------
(* The underlying stack, as a mock: constants of its headers, a fixed      *)
(* socket table, an option store, and the results its primitives may give. *)

SOL_SOCKET == 4095
SO_SNDTIMEO == 4101
SO_RCVTIMEO == 4102
SO_TYPE == 4104
IPPROTO_IPV6 == 41
SOCK_STREAM == 1
SOCK_DGRAM == 2
SOCK_RAW == 3

OpenSocks == {0, 1, 2}
Socks == OpenSocks \cup {5}
Category(h) == CASE h = 0 -> SOCK_STREAM [] h = 1 -> SOCK_DGRAM [] OTHER -> SOCK_RAW

ValidPairs == {<<SOL_SOCKET, SO_RCVTIMEO>>, <<SOL_SOCKET, SO_SNDTIMEO>>}
OptPairs == ValidPairs \cup {<<IPPROTO_IPV6, IPV6_MULTICAST_LOOP>>}
OptKeys == {<<h, p[1], p[2]>> : h \in OpenSocks, p \in ValidPairs}
TypeQuery == <<SOL_SOCKET, SO_TYPE>>

\* The results a primitive invocation f may return in the current state.
lwip_results(f) ==
    CASE f.prim = "lwip_setsockopt" ->
           IF <<f.args[1], f.args[2], f.args[3]>> \in OptKeys THEN {0} ELSE FailCodes
      [] f.prim = "lwip_getsockopt" ->
           IF \/ <<f.args[1], f.args[2], f.args[3]>> \in OptKeys
              \/ (f.args[1] \in OpenSocks /\ <<f.args[2], f.args[3]>> = TypeQuery)
           THEN {0} ELSE FailCodes
      [] f.prim = "lwip_freeaddrinfo" -> {0}
      [] OTHER -> Results

\* errno as the stack leaves it after returning r from primitive prim.
lwip_errno(prim, r) ==
    IF r >= 0 THEN {0}
    ELSE CASE prim = "lwip_connect" -> {ETIMEDOUT, ECONNREFUSED}
           [] prim \in {"lwip_accept", "lwip_recv", "lwip_recvfrom"} -> {EWOULDBLOCK}
           [] prim \in {"lwip_setsockopt", "lwip_getsockopt"} -> {ENOPROTOOPT}
           [] OTHER -> {EBADF}

\* The option store after primitive invocation f returned r.
lwip_opts_after(f, r) ==
    IF f.prim = "lwip_setsockopt" /\ r = 0
    THEN [opts EXCEPT ![<<f.args[1], f.args[2], f.args[3]>>] = f.args[4]]
    ELSE opts

\* What the stack wrote through the out-pointer of invocation f returning r.
lwip_out(f, r) ==
    IF f.prim = "lwip_getsockopt" /\ r = 0
    THEN IF <<f.args[2], f.args[3]>> = TypeQuery
         THEN Category(f.args[1])
         ELSE opts[<<f.args[1], f.args[2], f.args[3]>>]
    ELSE 0

----------------------------------------------------------------------------
(* Helpers of the wrappers. *)

\* `len as size_t`: an i32 reinterpreted as an unsigned 32-bit size, kept as its
\* two 16-bit halves <<high, low>> (sign extension makes -1 <<65535, 65535>>).
Half == 2^16
as_size_t(len) == <<(len \div Half) % Half, len % Half>>

\* `match retval { 0 => 0, _ => -1 }`
Normalise_busy(retval) ==
    IF Cardinality({u \in Callers : pc[u] = "in_stack"}) > 1 THEN -1
    ELSE IF retval = 0 THEN 0 ELSE -1
Normalise(retval) == IF retval = 0 THEN 0 ELSE -1

\* The wrapper's return value under its convention: "binary" wrappers match on
\* the result, "raw" wrappers return the primitive's value as it is.
Convert(conv, retval) == IF conv = "binary" THEN Normalise(retval) ELSE retval

NoCall == [op |-> "none", args |-> <<>>, conv |-> "raw"]
NoFwd == [prim |-> "none", args |-> <<>>]

\* `unsafe { lwip_x(..) }`: the wrapper op, called with args, invokes primitive
\* prim with pargs; conv is what it will do with the result.
Invoke(t, op, args, prim, pargs, conv) ==
    /\ pc[t] = "idle"
    /\ pc' = [pc EXCEPT ![t] = "in_stack"]
    /\ call' = [call EXCEPT ![t] = [op |-> op, args |-> args, conv |-> conv]]
    /\ fwd' = [fwd EXCEPT ![t] = [prim |-> prim, args |-> pargs]]
    /\ under' = [under EXCEPT ![t] = <<prim>>]
    /\ UNCHANGED <<raw, ret, out, err, opts, gnetif_addr, lastSet>>

----------------------------------------------------------------------------
(* The wrappers.  Each is the call half of its function: which primitive   *)
(* it invokes, with which arguments, and what it does with the result.     *)
(* Pointers are opaque tokens, except optval of setsockopt, which stands   *)
(* for the value it points to.                                             *)

socket_default_protocol(t, family, socket_type, protocol) ==
    /\ Invoke(t, "socket", <<family, socket_type, protocol>>,
           "lwip_socket", <<family, socket_type, 0>>, "raw")
socket(t, family, socket_type, protocol) ==
    /\ Invoke(t, "socket", <<family, socket_type, protocol>>,
           "lwip_socket", <<family, socket_type, protocol>>, "raw")

setsockopt_swapped(t, sock, level, optname, optval, optlen) ==
    /\ Invoke(t, "setsockopt", <<sock, level, optname, optval, optlen>>,
           "lwip_setsockopt", <<sock, optname, level, optval, optlen>>, "binary")
setsockopt(t, sock, level, optname, optval, optlen) ==
    /\ Invoke(t, "setsockopt", <<sock, level, optname, optval, optlen>>,
           "lwip_setsockopt", <<sock, level, optname, optval, optlen>>, "binary")

getsockopt(t, sock, level, optname, optval, optlen) ==
    /\ Invoke(t, "getsockopt", <<sock, level, optname, optval, optlen>>,
           "lwip_getsockopt", <<sock, level, optname, optval, optlen>>, "binary")

bind_raw(t, sock, name, namelen) ==
    /\ Invoke(t, "bind", <<sock, name, namelen>>, "lwip_bind", <<sock, name, namelen>>, "raw")
bind(t, sock, name, namelen) ==
    /\ Invoke(t, "bind", <<sock, name, namelen>>, "lwip_bind", <<sock, name, namelen>>, "binary")

connect(t, sock, name, namelen) ==
    /\ Invoke(t, "connect", <<sock, name, namelen>>,
           "lwip_connect", <<sock, name, namelen>>, "binary")

listen(t, sock, backlog) ==
    /\ Invoke(t, "listen", <<sock, backlog>>, "lwip_listen", <<sock, backlog>>, "binary")

accept(t, sock, name, namelen) ==
    /\ Invoke(t, "accept", <<sock, name, namelen>>,
           "lwip_accept", <<sock, name, namelen>>, "binary")

getsockname_normalised(t, sock, name, namelen) ==
    /\ Invoke(t, "getsockname", <<sock, name, namelen>>,
           "lwip_getsockname", <<sock, name, namelen>>, "binary")
getsockname(t, sock, name, namelen) ==
    /\ Invoke(t, "getsockname", <<sock, name, namelen>>,
           "lwip_getsockname", <<sock, name, namelen>>, "raw")

send(t, sock, mem, len, flags) ==
    /\ Invoke(t, "send", <<sock, mem, len, flags>>, "lwip_send", <<sock, mem, len, flags>>, "raw")

sendmsg(t, sock, message, flags) ==
    /\ Invoke(t, "sendmsg", <<sock, message, flags>>,
           "lwip_sendmsg", <<sock, message, flags>>, "raw")

recv(t, sock, mem, len, flags) ==
    /\ Invoke(t, "recv", <<sock, mem, len, flags>>,
           "lwip_recv", <<sock, mem, as_size_t(len), flags>>, "raw")

recvmsg(t, sock, message, flags) ==
    /\ Invoke(t, "recvmsg", <<sock, message, flags>>,
           "lwip_recvmsg", <<sock, message, flags>>, "raw")

getpeername(t, sock, name, namelen) ==
    /\ Invoke(t, "getpeername", <<sock, name, namelen>>,
           "lwip_getpeername", <<sock, name, namelen>>, "raw")

getaddrinfo(t, nodename, servname, hints, res) ==
    /\ Invoke(t, "getaddrinfo", <<nodename, servname, hints, res>>,
           "lwip_getaddrinfo", <<nodename, servname, hints, res>>, "raw")

freeaddrinfo(t, ai) ==
    /\ Invoke(t, "freeaddrinfo", <<ai>>, "lwip_freeaddrinfo", <<ai>>, "raw")

shutdown(t, sock, how) ==
    /\ Invoke(t, "shutdown", <<sock, how>>, "lwip_shutdown", <<sock, how>>, "raw")

poll(t, fds, nfds, timeout) ==
    /\ Invoke(t, "poll", <<fds, nfds, timeout>>, "lwip_poll", <<fds, nfds, timeout>>, "raw")

fcntl(t, s, cmd, val) ==
    /\ Invoke(t, "fcntl", <<s, cmd, val>>, "lwip_fcntl", <<s, cmd, val>>, "raw")

ioctl(t, s, cmd, argp) ==
    /\ Invoke(t, "ioctl", <<s, cmd, argp>>, "lwip_ioctl", <<s, cmd, argp>>, "raw")

----------------------------------------------------------------------------
(* Addressed send and receive.  The source forwards unconditionally (the   *)
(* permissive policy).  The strict policy of the specification, which the  *)
(* source does not hold, first queries the socket's category.              *)

AddressedOps == {"sendto", "recvfrom"}
AddressedPrim(op) == IF op = "sendto" THEN "lwip_sendto" ELSE "lwip_recvfrom"
AddressedArgs(op, a) ==
    IF op = "sendto" THEN a ELSE <<a[1], a[2], as_size_t(a[3]), a[4], a[5], a[6]>>

\* The strict policy's first half: the category query (a get-option side call).
addressed_strict(t, op, args) ==
    /\ Invoke(t, op, args, "lwip_getsockopt",
           <<args[1], SOL_SOCKET, SO_TYPE, "type", "typelen">>, "raw")

sendto_category_check(t, sock, mem, len, flags, to, tolen) ==
    /\ addressed_strict(t, "sendto", <<sock, mem, len, flags, to, tolen>>)
sendto(t, sock, mem, len, flags, to, tolen) ==
    /\ Invoke(t, "sendto", <<sock, mem, len, flags, to, tolen>>,
           "lwip_sendto", <<sock, mem, len, flags, to, tolen>>, "raw")

recvfrom(t, sock, mem, len, flags, from, fromlen) ==
    /\ Invoke(t, "recvfrom", <<sock, mem, len, flags, from, fromlen>>,
           "lwip_recvfrom", <<sock, mem, as_size_t(len), flags, from, fromlen>>, "raw")

sendto_strict(t, sock, mem, len, flags, to, tolen) ==
    /\ addressed_strict(t, "sendto", <<sock, mem, len, flags, to, tolen>>)

recvfrom_strict(t, sock, mem, len, flags, from, fromlen) ==
    /\ addressed_strict(t, "recvfrom", <<sock, mem, len, flags, from, fromlen>>)

IsCategoryQuery(t) == call[t].op \in AddressedOps /\ fwd[t].prim = "lwip_getsockopt"

\* What the strict policy does with the category query's answer q (the value
\* written on success): "fail" or "forward".
strict_forwards_stream(r, q) == IF r # 0 THEN "fail" ELSE "forward"
strict_decision(r, q) ==
    IF r # 0 THEN "fail" ELSE IF q = SOCK_STREAM THEN "fail" ELSE "forward"

\* The strict policy's second half: the category query returns r.
strict_continue(t, r, e) ==
    /\ pc[t] = "in_stack"
    /\ IsCategoryQuery(t)
    /\ r \in lwip_results(fwd[t])
    /\ e \in lwip_errno(fwd[t].prim, r)
    /\ raw' = [raw EXCEPT ![t] = r]
    /\ err' = [err EXCEPT ![t] = e]
    /\ out' = [out EXCEPT ![t] = lwip_out(fwd[t], r)]
    /\ IF strict_decision(r, lwip_out(fwd[t], r)) = "fail"
       THEN /\ ret' = [ret EXCEPT ![t] = -1]
            /\ pc' = [pc EXCEPT ![t] = "returned"]
            /\ UNCHANGED <<fwd, under>>
       ELSE /\ fwd' = [fwd EXCEPT ![t] = [prim |-> AddressedPrim(call[t].op),
                                          args |-> AddressedArgs(call[t].op, call[t].args)]]
            /\ under' = [under EXCEPT ![t] = Append(@, AddressedPrim(call[t].op))]
            /\ UNCHANGED <<ret, pc>>
    /\ UNCHANGED <<call, opts, gnetif_addr, lastSet>>

----------------------------------------------------------------------------
(* The return half of every wrapper, the readiness probe, and the rest.    *)

\* The primitive the caller is inside returns r, leaving errno e; the wrapper
\* converts r under its convention and returns.
Complete(t, r, e) ==
    /\ pc[t] = "in_stack"
    /\ ~IsCategoryQuery(t)
    /\ r \in lwip_results(fwd[t])
    /\ e \in lwip_errno(fwd[t].prim, r)
    /\ opts' = lwip_opts_after(fwd[t], r)
    /\ out' = [out EXCEPT ![t] = lwip_out(fwd[t], r)]
    /\ raw' = [raw EXCEPT ![t] = r]
    /\ err' = [err EXCEPT ![t] = e]
    /\ ret' = [ret EXCEPT ![t] = Convert(call[t].conv, r)]
    /\ lastSet' = IF call[t].op = "setsockopt" /\ Convert(call[t].conv, r) = 0
                  THEN [lastSet EXCEPT ![<<call[t].args[1], call[t].args[2],
                                           call[t].args[3]>>] = call[t].args[4]]
                  ELSE lastSet
    /\ pc' = [pc EXCEPT ![t] = "returned"]
    /\ UNCHANGED <<call, fwd, under, gnetif_addr>>

\* `gnetif.ip_addr.addr != 0`: a plain read, no primitive is invoked.
is_netif_initialised_inverted(t) ==
    /\ pc[t] = "idle"
    /\ pc' = [pc EXCEPT ![t] = "returned"]
    /\ call' = [call EXCEPT ![t] = [op |-> "is_netif_initialised", args |-> <<>>,
                                    conv |-> "raw"]]
    /\ ret' = [ret EXCEPT ![t] = (gnetif_addr = 0)]
    /\ UNCHANGED <<fwd, under, raw, out, err, opts, gnetif_addr, lastSet>>
is_netif_initialised(t) ==
    /\ pc[t] = "idle"
    /\ pc' = [pc EXCEPT ![t] = "returned"]
    /\ call' = [call EXCEPT ![t] = [op |-> "is_netif_initialised", args |-> <<>>,
                                    conv |-> "raw"]]
    /\ ret' = [ret EXCEPT ![t] = (gnetif_addr # 0)]
    /\ UNCHANGED <<fwd, under, raw, out, err, opts, gnetif_addr, lastSet>>

\* The caller takes the return value and is ready for its next call.
Reset(t) ==
    /\ pc[t] = "returned"
    /\ pc' = [pc EXCEPT ![t] = "idle"]
    /\ call' = [call EXCEPT ![t] = NoCall]
    /\ fwd' = [fwd EXCEPT ![t] = NoFwd]
    /\ under' = [under EXCEPT ![t] = <<>>]
    /\ raw' = [raw EXCEPT ![t] = 0]
    /\ ret' = [ret EXCEPT ![t] = 0]
    /\ out' = [out EXCEPT ![t] = 0]
    /\ err' = [err EXCEPT ![t] = 0]
    /\ UNCHANGED <<opts, gnetif_addr, lastSet>>

\* The stack assigns (or clears) the default interface's address.
NetifUpdate(a) ==
    /\ a # gnetif_addr
    /\ gnetif_addr' = a
    /\ UNCHANGED <<pc, call, fwd, under, raw, ret, out, err, opts, lastSet>>

Init ==
    /\ pc = [t \in Callers |-> "idle"]
    /\ call = [t \in Callers |-> NoCall]
    /\ fwd = [t \in Callers |-> NoFwd]
    /\ under = [t \in Callers |-> <<>>]
    /\ raw = [t \in Callers |-> 0]
    /\ ret = [t \in Callers |-> 0]
    /\ out = [t \in Callers |-> 0]
    /\ err = [t \in Callers |-> 0]
    /\ opts = [k \in OptKeys |-> 0]
    /\ gnetif_addr = 0
    /\ lastSet = [k \in OptKeys |-> -1]

----------------------------------------------------------------------------
(* Spec: one caller, every wrapper of the source, inputs from small sets.  *)

Errnos == {0, EBADF, EWOULDBLOCK, ENOPROTOOPT, ETIMEDOUT, ECONNREFUSED}

Next ==
    \/ \E t \in {1} :
        \/ \E socket_type \in {SOCK_STREAM, SOCK_DGRAM}, protocol \in {0, 6} :
             socket(t, 2, socket_type, protocol)
        \/ \E sock \in {0, 5}, p \in OptPairs, v \in OptVals :
             setsockopt(t, sock, p[1], p[2], v, 4)
        \/ \E sock \in {0, 5}, p \in OptPairs :
             getsockopt(t, sock, p[1], p[2], "optval", "optlen")
        \/ \E sock \in {0, 5} : bind(t, sock, "name", 16)
        \/ \E sock \in {0, 5} : connect(t, sock, "name", 16)
        \/ \E sock \in {0, 5} : listen(t, sock, 1)
        \/ \E sock \in {0, 5} : accept(t, sock, "name", "namelen")
        \/ \E sock \in {0, 5} : getsockname(t, sock, "name", "namelen")
        \/ \E sock \in {0, 5} : getpeername(t, sock, "name", "namelen")
        \/ \E len \in Lens : send(t, 0, "mem", len, 0)
        \/ \E len \in Lens : recv(t, 0, "mem", len, 0)
        \/ \E sock \in Socks, len \in Lens : sendto(t, sock, "mem", len, 0, "to", 16)
        \/ \E sock \in Socks, len \in Lens :
             recvfrom(t, sock, "mem", len, 0, "from", "fromlen")
        \/ sendmsg(t, 0, "message", 0)
        \/ recvmsg(t, 0, "message", 0)
        \/ getaddrinfo(t, "nodename", "servname", "hints", "res")
        \/ freeaddrinfo(t, "ai")
        \/ \E how \in {0, 2} : shutdown(t, 0, how)
        \/ \E timeout \in {-1, 0} : poll(t, "fds", 1, timeout)
        \/ fcntl(t, 0, 4, 1)
        \/ ioctl(t, 0, 1, "argp")
        \/ is_netif_initialised(t)
        \/ \E r \in Results, e \in Errnos : Complete(t, r, e)
        \/ Reset(t)
    \/ \E a \in Addrs : NetifUpdate(a)

Spec == Init /\ [][Next]_vars

----------------------------------------------------------------------------
(* SpecConc: two callers running wrappers concurrently, also on the same   *)
(* handle; few inputs per wrapper, to bound the product.                   *)

NextConc ==
    \/ \E t \in Callers :
        \/ socket(t, 2, SOCK_STREAM, 6)
        \/ \E v \in OptVals : setsockopt(t, 0, SOL_SOCKET, SO_RCVTIMEO, v, 4)
        \/ getsockopt(t, 0, SOL_SOCKET, SO_RCVTIMEO, "optval", "optlen")
        \/ bind(t, 0, "name", 16)
        \/ connect(t, 0, "name", 16)
        \/ listen(t, 0, 1)
        \/ accept(t, 0, "name", "namelen")
        \/ getsockname(t, 0, "name", "namelen")
        \/ getpeername(t, 0, "name", "namelen")
        \/ \E sock \in {0, 1} : send(t, sock, "mem", MaxLen, 0)
        \/ \E sock \in {0, 1} : recv(t, sock, "mem", MaxLen, 0)
        \/ sendto(t, 0, "mem", MaxLen, 0, "to", 16)
        \/ recvfrom(t, 0, "mem", MaxLen, 0, "from", "fromlen")
        \/ sendmsg(t, 0, "message", 0)
        \/ recvmsg(t, 0, "message", 0)
        \/ getaddrinfo(t, "nodename", "servname", "hints", "res")
        \/ freeaddrinfo(t, "ai")
        \/ shutdown(t, 0, 2)
        \/ poll(t, "fds", 1, 0)
        \/ fcntl(t, 0, 4, 1)
        \/ ioctl(t, 0, 1, "argp")
        \/ is_netif_initialised(t)
        \/ \E r \in Results, e \in Errnos : Complete(t, r, e)
        \/ Reset(t)
    \/ \E a \in Addrs : NetifUpdate(a)

SpecConc == Init /\ [][NextConc]_vars

----------------------------------------------------------------------------
(* SpecStrict: the addressed wrappers under the strict policy.             *)

NextStrict ==
    \E t \in {1} :
        \/ \E sock \in Socks, len \in Lens :
             sendto_strict(t, sock, "mem", len, 0, "to", 16)
        \/ \E sock \in Socks, len \in Lens :
             recvfrom_strict(t, sock, "mem", len, 0, "from", "fromlen")
        \/ \E r \in Results, e \in Errnos : strict_continue(t, r, e)
        \/ \E r \in Results, e \in Errnos : Complete(t, r, e)
        \/ Reset(t)

SpecStrict == Init /\ [][NextStrict]_vars

----------------------------------------------------------------------------
(* The claims. *)

Returned(t) == pc[t] = "returned"
Range(q) == {q[i] : i \in 1..Len(q)}

\* C1: accept returns the stack's result as a handle-or-negative value: the
\* result itself when it is >= 0 (0 stays 0, 3 stays 3), a negative value when
\* it is negative; it is not collapsed to 0/-1.
C1_AcceptHandleOrNegative ==
    \A t \in Callers :
        (Returned(t) /\ call[t].op = "accept") =>
            /\ (raw[t] >= 0 => ret[t] = raw[t])
            /\ (raw[t] < 0 => ret[t] < 0)

\* C2: setsockopt, getsockopt, bind, connect and listen return 0 when the
\* primitive returned 0 and -1 otherwise: always 0 or -1, and a non-zero code
\* other than -1 is never surfaced as itself.
C2_BinaryOutcome ==
    \A t \in Callers :
        (Returned(t) /\ call[t].op \in {"setsockopt", "getsockopt", "bind",
                                        "connect", "listen"}) =>
            /\ ret[t] = (IF raw[t] = 0 THEN 0 ELSE -1)
            /\ ret[t] \in {0, -1}
            /\ (raw[t] \notin {0, -1} => ret[t] # raw[t])

C2_Witness ==
    \E t \in Callers :
        Returned(t) /\ call[t].op = "bind" /\ raw[t] = 7 /\ ret[t] = -1

\* C3: under the strict policy, sendto and recvfrom on a stream socket return
\* -1 and never invoke lwip_sendto / lwip_recvfrom; on a datagram socket they
\* invoke it (after the category query) and return its result unchanged.
C3_StrictAddressed ==
    \A t \in Callers :
        (pc[t] # "idle" /\ call[t].op \in AddressedOps
                        /\ call[t].args[1] \in OpenSocks) =>
            LET prim == IF call[t].op = "sendto" THEN "lwip_sendto" ELSE "lwip_recvfrom"
                cat == Category(call[t].args[1])
            IN  /\ cat = SOCK_STREAM =>
                    /\ prim \notin Range(under[t])
                    /\ Returned(t) => ret[t] = -1
                /\ (cat = SOCK_DGRAM /\ Returned(t)) =>
                    /\ under[t] = <<"lwip_getsockopt", prim>>
                    /\ ret[t] = raw[t]

C3_Witness ==
    \E t \in Callers :
        /\ Returned(t) /\ call[t].op = "sendto"
        /\ Category(call[t].args[1]) = SOCK_STREAM
        /\ under[t] = <<"lwip_getsockopt">> /\ ret[t] = -1

\* C4: sendto and recvfrom are permissive on every call and for every socket
\* category: no category query, exactly one invocation of lwip_sendto /
\* lwip_recvfrom, and that primitive's result returned unchanged.
C4_PermissiveAddressed ==
    \A t \in Callers :
        (pc[t] # "idle" /\ call[t].op \in {"sendto", "recvfrom"}) =>
            /\ under[t] = <<IF call[t].op = "sendto" THEN "lwip_sendto"
                                                   ELSE "lwip_recvfrom">>
            /\ Returned(t) => ret[t] = raw[t]

C4_Witness ==
    \E t \in Callers :
        /\ Returned(t) /\ call[t].op = "sendto"
        /\ Category(call[t].args[1]) = SOCK_STREAM
        /\ under[t] = <<"lwip_sendto">> /\ raw[t] = -5 /\ ret[t] = -5

\* C5: getsockname and getpeername return the stack's result code unchanged,
\* zero, positive or negative; a non-zero result is not collapsed to -1.
C5_NameRawResult ==
    \A t \in Callers :
        (Returned(t) /\ call[t].op \in {"getsockname", "getpeername"}) =>
            ret[t] = raw[t]

C5_Witness ==
    \E t \in Callers :
        Returned(t) /\ call[t].op = "getsockname" /\ raw[t] = 7 /\ ret[t] = 7

\* C6: is_netif_initialised returns false when gnetif.ip_addr.addr is zero and
\* true for every non-zero value, and it is a pure read: the step changes
\* nothing but the caller's own position and return value.
C6_ProbePureRead ==
    [][\A t \in Callers :
          (pc[t] = "idle" /\ pc'[t] = "returned"
                          /\ call'[t].op = "is_netif_initialised") =>
              /\ ret'[t] = (gnetif_addr # 0)
              /\ UNCHANGED <<gnetif_addr, opts, fwd, under, raw, out, err, lastSet>>
              /\ \A u \in Callers \ {t} : pc'[u] = pc[u] /\ ret'[u] = ret[u]]_vars

C6_Witness ==
    \E t \in Callers :
        /\ Returned(t) /\ call[t].op = "is_netif_initialised"
        /\ ret[t] = TRUE /\ gnetif_addr = MaxAddr /\ under[t] = <<>>

\* C7: against the mock option store, for every valid (level, option-name)
\* pair on an open handle, setsockopt returns 0, and a later getsockopt on the
\* same handle and pair returns 0 and yields the value that was set.
C7_OptionRoundTrip ==
    \A t \in Callers :
        LET key == <<call[t].args[1], call[t].args[2], call[t].args[3]>>
        IN  (Returned(t) /\ call[t].op \in {"setsockopt", "getsockopt"}
                         /\ key \in OptKeys) =>
                /\ ret[t] = 0
                /\ call[t].op = "setsockopt" => lastSet[key] = call[t].args[4]
                /\ (call[t].op = "getsockopt" /\ lastSet[key] # -1) =>
                       out[t] = lastSet[key]

C7_Witness ==
    \E t \in Callers :
        /\ Returned(t) /\ call[t].op = "getsockopt" /\ ret[t] = 0
        /\ call[t].args[3] = SO_SNDTIMEO
        /\ out[t] = MaxOptVal
        /\ lastSet[<<call[t].args[1], call[t].args[2], call[t].args[3]>>] = MaxOptVal

\* C8: the errno aliases equal their targets and the named constants have the
\* standard values: ETIMEDOUT 110, ECONNREFUSED 111, EWOULDBLOCK = EAGAIN = 11,
\* EDEADLOCK = EDEADLK = 35; so a caller that compares the errno the stack
\* left against an alias gets the answer it gets against the target.
C8_ErrnoValues ==
    \A t \in Callers :
        /\ ETIMEDOUT = 110 /\ ECONNREFUSED = 111
        /\ EWOULDBLOCK = EAGAIN /\ EAGAIN = 11
        /\ EDEADLOCK = EDEADLK /\ EDEADLK = 35
        /\ (err[t] = EWOULDBLOCK) <=> (err[t] = EAGAIN)
        /\ (err[t] = EDEADLOCK) <=> (err[t] = EDEADLK)

C8_Witness ==
    \E t \in Callers :
        /\ Returned(t) /\ call[t].op = "recv" /\ ret[t] = -1
        /\ err[t] = EAGAIN

\* The pass-through wrappers and the primitive each must invoke.
PassThrough ==
    {"socket", "send", "recv", "sendmsg", "recvmsg", "shutdown", "poll",
     "fcntl", "ioctl", "getaddrinfo", "freeaddrinfo"}
PrimitiveOf(op) ==
    CASE op = "socket" -> "lwip_socket" [] op = "send" -> "lwip_send"
      [] op = "recv" -> "lwip_recv" [] op = "sendmsg" -> "lwip_sendmsg"
      [] op = "recvmsg" -> "lwip_recvmsg" [] op = "shutdown" -> "lwip_shutdown"
      [] op = "poll" -> "lwip_poll" [] op = "fcntl" -> "lwip_fcntl"
      [] op = "ioctl" -> "lwip_ioctl" [] op = "getaddrinfo" -> "lwip_getaddrinfo"
      [] op = "freeaddrinfo" -> "lwip_freeaddrinfo"

\* The unsigned size sz (two 16-bit halves) denotes the number n.
SizeDenotes(sz, n) == n >= 0 /\ sz[1] = n \div Half /\ sz[2] = n % Half

\* C9 as stated: every pass-through wrapper invokes its primitive exactly once
\* with the caller's argument values unchanged (recv: the same numeric
\* length, whatever the length) and returns the primitive's result unchanged.
C9_PassThroughVerbatim ==
    \A t \in Callers :
        (pc[t] # "idle" /\ call[t].op \in PassThrough) =>
            /\ under[t] = <<PrimitiveOf(call[t].op)>>
            /\ fwd[t].prim = PrimitiveOf(call[t].op)
            /\ IF call[t].op = "recv"
               THEN /\ fwd[t].args[1] = call[t].args[1]
                    /\ fwd[t].args[2] = call[t].args[2]
                    /\ SizeDenotes(fwd[t].args[3], call[t].args[3])
                    /\ fwd[t].args[4] = call[t].args[4]
               ELSE fwd[t].args = call[t].args
            /\ Returned(t) => ret[t] = raw[t]

\* C9 as amended: the same, except that recv passes the same numeric length
\* only when the length is not negative (a negative length is cast to the
\* unsigned size_t and reaches lwip_recv as another number).
C9_PassThroughNonNegativeLen ==
    \A t \in Callers :
        (pc[t] # "idle" /\ call[t].op \in PassThrough) =>
            /\ under[t] = <<PrimitiveOf(call[t].op)>>
            /\ fwd[t].prim = PrimitiveOf(call[t].op)
            /\ IF call[t].op = "recv"
               THEN /\ fwd[t].args[1] = call[t].args[1]
                    /\ fwd[t].args[2] = call[t].args[2]
                    /\ call[t].args[3] >= 0 =>
                           SizeDenotes(fwd[t].args[3], call[t].args[3])
                    /\ fwd[t].args[4] = call[t].args[4]
               ELSE fwd[t].args = call[t].args
            /\ Returned(t) => ret[t] = raw[t]

C9_Witness ==
    \E t \in Callers :
        /\ Returned(t) /\ call[t].op = "recv" /\ call[t].args[3] = MaxLen
        /\ fwd[t].args[3] = <<0, MaxLen>>
        /\ under[t] = <<"lwip_recv">> /\ raw[t] = -1 /\ ret[t] = -1

\* C10: the layer is stateless and reentrant: whatever the interleaving, two
\* calls of the same wrapper whose primitives gave the same result return the
\* same value, and an idle caller can always enter the stack, whatever the
\* other callers are doing (the layer holds no lock).
C10_StatelessReentrant ==
    /\ \A t, u \in Callers :
          (Returned(t) /\ Returned(u) /\ call[t].op = call[u].op
                       /\ call[t].op # "is_netif_initialised"
                       /\ raw[t] = raw[u]) => ret[t] = ret[u]
    /\ \A t \in Callers :
          pc[t] = "idle" => ENABLED send(t, 0, "mem", MaxLen, 0)

C10_Witness ==
    \E t, u \in Callers :
        /\ t # u /\ pc[t] = "in_stack" /\ pc[u] = "in_stack"
        /\ fwd[t].prim = "lwip_send" /\ fwd[u].prim = "lwip_send"
        /\ fwd[t].args[1] = fwd[u].args[1]

====
